---------------------------- MODULE Spec2Model ----------------------------
(***************************************************************************)
(* Model of src/expense-tracker.js: a module-level array `expenses`, the   *)
(* fixed `categories` array, and the handlers addExpense, removeExpense,   *)
(* viewByCategory, calculateTotal and generateReport that read or mutate   *)
(* it.  Every handler runs to completion (single-threaded script), so each *)
(* handler is one action.                                                  *)
(*                                                                         *)
(* JavaScript values are modelled as tagged records so that typeof, the    *)
(* ToNumber coercion of `amount <= 0`, strict equality and NaN behave as   *)
(* they do in the language.  Numbers are IEEE-754 binary floating point    *)
(* with round-to-nearest-even; the significand width is scaled down from   *)
(* 53 bits to MantBits bits so that values stay inside TLC's integers.     *)
(***************************************************************************)
EXTENDS Integers, Sequences, FiniteSets, TLC

VARIABLES
    expenses,   \* the `expenses` array (line 4)
    now,        \* logical clock read by `new Date()` in addExpense
    assigned,   \* history: every id ever given to a record by addExpense
    removed,    \* history: TRUE once some removeExpense has deleted a record
    last,       \* the most recent handler call: its name, arguments, outcome
    shown,      \* records printed by the most recent viewByCategory
    total,      \* value printed by the most recent calculateTotal/viewByCategory
    report      \* values computed by the most recent generateReport

vars == <<expenses, now, assigned, removed, last, shown, total, report>>

----------------------------------------------------------------------------
(* Bounds of the model *)

\* Largest ledger length explored.
MaxLen == 3
\* Largest number of successful adds explored (caps the logical clock).
MaxAdds == 4
\* Significand width of the scaled-down binary floating point format.
MantBits == 3

----------------------------------------------------------------------------
(* JavaScript values *)

Num(v) == [t |-> "number", nan |-> FALSE, n |-> v, s |-> ""]
NaN == [t |-> "number", nan |-> TRUE, n |-> 0, s |-> ""]
Str(x) == [t |-> "string", nan |-> FALSE, n |-> 0, s |-> x]
\* typeof null is "object"
Null == [t |-> "object", nan |-> FALSE, n |-> 0, s |-> ""]

\* ToNumber on the strings the model passes in: "" is 0, a decimal literal is
\* its value, anything else is NaN.
StringToNumber(x) ==
    CASE x = "" -> Num(0)
      [] x = "5" -> Num(5)
      [] x = "-1" -> Num(-1)
      [] OTHER -> NaN

\* ToNumber as applied by the relational operators: null is 0.
ToNumber(v) ==
    IF v.t = "number" THEN v
    ELSE IF v.t = "string" THEN StringToNumber(v.s)
    ELSE Num(0)

\* a <= b: false whenever either operand converts to NaN.
LessEq(a, b) ==
    LET x == ToNumber(a)
        y == ToNumber(b)
    IN  ~x.nan /\ ~y.nan /\ x.n <= y.n

\* a > b on numbers: false whenever either operand is NaN.
Greater(a, b) == ~a.nan /\ ~b.nan /\ a.n > b.n

\* a === b
StrictEq(a, b) ==
    /\ a.t = b.t
    /\ IF a.t = "number" THEN ~a.nan /\ ~b.nan /\ a.n = b.n
       ELSE IF a.t = "string" THEN a.s = b.s
       ELSE TRUE

RECURSIVE Pow2(_)
Pow2(k) == IF k = 0 THEN 1 ELSE 2 * Pow2(k - 1)

\* The unit in the last place of a non-negative real x: the largest power of
\* two u with x < u * 2^MantBits (1 when x already fits the significand).
RECURSIVE Ulp(_, _)
Ulp(x, u) == IF x < u * Pow2(MantBits) THEN u ELSE Ulp(x, 2 * u)

\* Round a non-negative exact value to the nearest representable number,
\* ties to the even significand.
RoundNearestEven(x) ==
    LET u == Ulp(x, 1)
        q == x \div u
        r == x % u
    IN  IF 2 * r < u THEN q * u
        ELSE IF 2 * r > u THEN (q + 1) * u
        ELSE IF q % 2 = 0 THEN q * u ELSE (q + 1) * u

\* a + b on numbers (the operands the program adds are never negative).
Plus(a, b) ==
    IF a.nan \/ b.nan THEN NaN ELSE Num(RoundNearestEven(a.n + b.n))

----------------------------------------------------------------------------
(* Program constants and array helpers *)

categories ==
    << "food", "transport", "entertainment", "utilities",
       "healthcare", "shopping", "other" >>

\* categories.includes(v): SameValueZero against string elements.
includes(arr, v) == v.t = "string" /\ \E i \in 1..Len(arr) : arr[i] = v.s

\* expenses.findIndex((exp) => exp.id === id), 1-based; 0 stands for -1.
findIndex(arr, id) ==
    IF \E i \in 1..Len(arr) : StrictEq(arr[i].id, id)
    THEN CHOOSE i \in 1..Len(arr) :
            /\ StrictEq(arr[i].id, id)
            /\ \A j \in 1..(i - 1) : ~StrictEq(arr[j].id, id)
    ELSE 0

\* arr.splice(index, 1) with a 1-based index.
splice(arr, index) == SubSeq(arr, 1, index - 1) \o SubSeq(arr, index + 1, Len(arr))

\* Variant of push that inserts at the front (unshift).
push_AtFront(arr, e) == << e >> \o arr

\* arr.push(e)
push(arr, e) == Append(arr, e)

\* expenses.filter((expense) => expense.category === category)
RECURSIVE filter(_, _)
filter(arr, category) ==
    IF arr = << >> THEN << >>
    ELSE IF StrictEq(Head(arr).category, category)
         THEN << Head(arr) >> \o filter(Tail(arr), category)
         ELSE filter(Tail(arr), category)

\* arr.reduce((sum, expense) => sum + expense.amount, sum)
RECURSIVE sumAmounts(_, _)
sumAmounts(arr, sum) ==
    IF arr = << >> THEN sum
    ELSE sumAmounts(Tail(arr), Plus(sum, Head(arr).amount))

----------------------------------------------------------------------------
(* Validation *)

\* Variant of checkValidity without the typeof test on the amount.
checkValidity_NoTypeTest(amount, category, description) ==
    IF LessEq(amount, Num(0)) THEN FALSE
    ELSE IF ~includes(categories, category) THEN FALSE
    ELSE IF description.t # "string" THEN FALSE
    ELSE TRUE

checkValidity(amount, category, description) ==
    IF LessEq(amount, Num(0)) THEN FALSE
    ELSE IF amount.t # "number" THEN FALSE
    ELSE IF ~includes(categories, category) THEN FALSE
    ELSE IF description.t # "string" THEN FALSE
    ELSE TRUE

----------------------------------------------------------------------------
(* Aggregation performed by generateReport *)

\* Is there a property named key in the totals object?
hasKey(totals, key) == \E i \in 1..Len(totals) : totals[i].category = key

\* One step of the categoryTotals reducer.  The object is kept as the
\* sequence of its entries in property-insertion order, which is the order
\* Object.entries yields for these (non-numeric) keys.
groupStep(totals, expense) ==
    LET key == expense.category.s
        withKey == IF ~hasKey(totals, key)
                   THEN Append(totals, [category |-> key, total |-> Num(0), count |-> 0])
                   ELSE totals
    IN  [i \in 1..Len(withKey) |->
            IF withKey[i].category = key
            THEN [category |-> key,
                  total |-> Plus(withKey[i].total, expense.amount),
                  count |-> withKey[i].count + 1]
            ELSE withKey[i]]

\* expenses.reduce(groupStep, {})
RECURSIVE categoryTotals(_, _)
categoryTotals(arr, totals) ==
    IF arr = << >> THEN totals
    ELSE categoryTotals(Tail(arr), groupStep(totals, Head(arr)))

\* for (const [category, data] of entries) grandTotal += data.total
RECURSIVE grandTotal(_, _)
grandTotal(entries, sum) ==
    IF entries = << >> THEN sum
    ELSE grandTotal(Tail(entries), Plus(sum, Head(entries).total))

\* One step of the topCategory reducer.
topStep(max, entry) ==
    IF Greater(entry.total, max.total)
    THEN [category |-> entry.category, total |-> entry.total]
    ELSE max

\* entries.reduce(topStep, { category: "", total: 0 })
RECURSIVE topCategory(_, _)
topCategory(entries, max) ==
    IF entries = << >> THEN max
    ELSE topCategory(Tail(entries), topStep(max, Head(entries)))

----------------------------------------------------------------------------
(* Inputs the handlers are called with *)

\* The smallest number whose successor is not representable.
Big == Pow2(MantBits)

\* Arguments of one addExpense call.
Args(amount, category, description) ==
    [amount |-> amount, category |-> category, description |-> description]

\* Calls with a positive or not-a-number amount, a category of the fixed set
\* and a textual (possibly empty) description.
AcceptedAdds ==
    { Args(Num(1), Str("food"), Str("lunch")),
      Args(Num(1), Str("transport"), Str("")),
      Args(Num(Big), Str("food"), Str("rent")),
      Args(NaN, Str("transport"), Str("taxi")) }

\* Calls with an amount that is zero, negative, a numeric string or null, with
\* a category outside the fixed set, with a description that is no string,
\* and with all three wrong.
RejectedAdds ==
    { Args(a, Str("food"), Str("lunch")) : a \in { Num(0), Num(-1), Str("5"), Null } }
    \cup { Args(Num(1), Str("pets"), Str("lunch")),
           Args(Num(1), Str("food"), Null),
           Args(Num(0), Str("pets"), Null) }

AddInputs == AcceptedAdds \cup RejectedAdds
IdInputs == { Num(i) : i \in 1..(MaxLen + 1) } \cup { Str("1") }
CategoryInputs == { Str("food"), Str("transport"), Str("pets") }
TotalInputs == { "", "food" }

----------------------------------------------------------------------------
(* State *)

NoTotal == [printed |-> FALSE, value |-> Num(0)]
NoReport ==
    [made |-> FALSE, totals |-> << >>, grandTotal |-> Num(0),
     top |-> [category |-> "", total |-> Num(0)]]

\* Record of a handler call.
Call(op, amount, category, description, id, ok, newId) ==
    [op |-> op, amount |-> amount, category |-> category,
     description |-> description, id |-> id, ok |-> ok, newId |-> newId]

Init ==
    /\ expenses = << >>
    /\ now = 0
    /\ assigned = {}
    /\ removed = FALSE
    /\ last = Call("start", Null, Null, Null, Null, TRUE, 0)
    /\ shown = << >>
    /\ total = NoTotal
    /\ report = NoReport

\* Variant of nextId that numbers from the current length.
nextId_FromLength(arr) == Len(arr)

\* id: expenses.length + 1
nextId(arr) == Len(arr) + 1

addExpense(amount, category, description) ==
    LET isValidated == checkValidity(amount, category, description)
        expense == [id |-> Num(nextId(expenses)), amount |-> amount,
                    category |-> category, description |-> description,
                    date |-> now]
    IN  /\ isValidated => (Len(expenses) < MaxLen /\ now < MaxAdds)
        /\ IF isValidated
           THEN /\ expenses' = push(expenses, expense)
                /\ now' = now + 1
                /\ assigned' = assigned \cup {expense.id.n}
                /\ last' = Call("add", amount, category, description, Null,
                                TRUE, expense.id.n)
           ELSE /\ UNCHANGED <<expenses, now, assigned>>
                /\ last' = Call("add", amount, category, description, Null,
                                FALSE, 0)
        /\ shown' = << >>
        /\ total' = NoTotal
        /\ report' = NoReport
        /\ UNCHANGED removed

removeExpense(id) ==
    LET index == IF id.t # "number" THEN 0 ELSE findIndex(expenses, id)
    IN  /\ IF index # 0
           THEN /\ expenses' = splice(expenses, index)
                /\ removed' = TRUE
           ELSE UNCHANGED <<expenses, removed>>
        /\ last' = Call("remove", Null, Null, Null, id, index # 0, 0)
        /\ shown' = << >>
        /\ total' = NoTotal
        /\ report' = NoReport
        /\ UNCHANGED <<now, assigned>>

viewByCategory(category) ==
    LET filteredExpenses == filter(expenses, category)
    IN  /\ IF ~includes(categories, category)
           THEN /\ shown' = << >>
                /\ total' = NoTotal
                /\ last' = Call("view", Null, category, Null, Null, FALSE, 0)
           ELSE /\ shown' = filteredExpenses
                /\ total' = IF Len(filteredExpenses) > 0
                            THEN [printed |-> TRUE,
                                  value |-> sumAmounts(filteredExpenses, Num(0))]
                            ELSE NoTotal
                /\ last' = Call("view", Null, category, Null, Null, TRUE, 0)
        /\ report' = NoReport
        /\ UNCHANGED <<expenses, now, assigned, removed>>

calculateTotal(category) ==
    /\ IF Len(expenses) = 0
       THEN total' = NoTotal
       ELSE IF Len(category) > 0
            THEN total' = [printed |-> TRUE,
                           value |-> sumAmounts(filter(expenses, Str(category)), Num(0))]
            ELSE total' = [printed |-> TRUE,
                           value |-> sumAmounts(expenses, Num(0))]
    /\ last' = Call("total", Null, Str(category), Null, Null, Len(expenses) # 0, 0)
    /\ shown' = << >>
    /\ report' = NoReport
    /\ UNCHANGED <<expenses, now, assigned, removed>>

generateReport ==
    LET totals == categoryTotals(expenses, << >>)
    IN  /\ IF Len(expenses) = 0
           THEN report' = NoReport
           ELSE report' =
                    [made |-> TRUE,
                     totals |-> totals,
                     grandTotal |-> grandTotal(totals, Num(0)),
                     top |-> topCategory(totals, [category |-> "", total |-> Num(0)])]
        /\ last' = Call("report", Null, Null, Null, Null, Len(expenses) # 0, 0)
        /\ shown' = << >>
        /\ total' = NoTotal
        /\ UNCHANGED <<expenses, now, assigned, removed>>

Next ==
    \/ \E in \in AddInputs : addExpense(in.amount, in.category, in.description)
    \/ \E id \in IdInputs : removeExpense(id)
    \/ \E category \in CategoryInputs : viewByCategory(category)
    \/ \E category \in TotalInputs : calculateTotal(category)
    \/ generateReport

Spec == Init /\ [][Next]_vars

----------------------------------------------------------------------------
(* Vocabulary of the properties *)

\* Some record of arr carries the id.
Present(arr, id) == \E i \in 1..Len(arr) : StrictEq(arr[i].id, id)

\* The amount is a number strictly greater than 0.
PositiveNumber(amount) == amount.t = "number" /\ ~amount.nan /\ amount.n > 0

\* The category belongs to the fixed set.
InFixedSet(category) ==
    category.t = "string" /\ \E i \in 1..Len(categories) : categories[i] = category.s

\* A valid add input: amount > 0, category in the fixed set, textual description.
ValidInput(call) ==
    /\ PositiveNumber(call.amount)
    /\ InFixedSet(call.category)
    /\ call.description.t = "string"

\* The categories that occur in the ledger.
CategoriesOf(arr) == { arr[i].category.s : i \in 1..Len(arr) }

\* Position of the first record of a category.
FirstIndex(arr, c) ==
    CHOOSE i \in 1..Len(arr) :
        /\ arr[i].category.s = c
        /\ \A j \in 1..(i - 1) : arr[j].category.s # c

RECURSIVE SumCounts(_)
SumCounts(entries) ==
    IF entries = << >> THEN 0 ELSE Head(entries).count + SumCounts(Tail(entries))

----------------------------------------------------------------------------
(* C1 *)

\* C1: no two records in the ledger have the same id, and an add never
\* assigns an id that was assigned to any record before, removed or not.
C1_IdsUniqueNeverReused ==
    [][ /\ \A i, j \in 1..Len(expenses') :
              i # j => expenses'[i].id # expenses'[j].id
        /\ (last'.op = "add" /\ last'.ok) => last'.newId \notin assigned ]_vars

----------------------------------------------------------------------------
(* C2 *)

\* C2: after an add with a valid input, looking up the reported id (first
\* record whose id equals it) yields the record just appended, carrying
\* exactly the given amount, category and description.
C2_AddRetrievableById ==
    (last.op = "add" /\ ValidInput(last)) =>
        LET index == findIndex(expenses, Num(last.newId))
        IN  /\ last.ok
            /\ index # 0
            /\ index = Len(expenses)
            /\ expenses[index].amount = last.amount
            /\ expenses[index].category = last.category
            /\ expenses[index].description = last.description

----------------------------------------------------------------------------
(* C3 *)

\* C3: remove(id) for an id carried by some record shortens the ledger by
\* exactly 1 and leaves no record with that id, so that a second remove(id)
\* finds nothing.
C3_RemoveDeletesId ==
    [][ (last'.op = "remove" /\ Present(expenses, last'.id)) =>
            /\ Len(expenses') = Len(expenses) - 1
            /\ ~Present(expenses', last'.id)
            /\ findIndex(expenses', last'.id) = 0 ]_vars

----------------------------------------------------------------------------
(* C4 *)

\* The call is one of the failing calls of C4, judged by its arguments and
\* the ledger it is applied to.
FailingCall(call, ledger) ==
    \/ /\ call.op = "add"
       /\ \/ call.amount.t = "number" /\ ~call.amount.nan /\ call.amount.n <= 0
          \/ call.amount.t # "number"
          \/ ~InFixedSet(call.category)
          \/ call.description.t # "string"
    \/ /\ call.op = "remove"
       /\ \/ call.id.t # "number"
          \/ ~Present(ledger, call.id)
    \/ /\ call.op = "view"
       /\ ~InFixedSet(call.category)

\* C4: a failing call (add with amount <= 0, non-numeric amount, category
\* outside the fixed set or non-textual description; remove with an absent or
\* non-number id; by-category query with a category outside the fixed set)
\* leaves the ledger exactly as it was.
C4_FailedCallsLeaveLedger ==
    [][ FailingCall(last', expenses) => (expenses' = expenses /\ ~last'.ok) ]_vars

\* A rejected add with a numeric string as amount, on a ledger holding records.
C4_Witness ==
    /\ last.op = "add"
    /\ ~last.ok
    /\ last.amount = Str("5")
    /\ Len(expenses) >= 2

----------------------------------------------------------------------------
(* C5 *)

\* C5: every stored record has an amount that is a number strictly greater
\* than 0.
C5_StoredAmountsPositive ==
    \A i \in 1..Len(expenses) : PositiveNumber(expenses[i].amount)

----------------------------------------------------------------------------
(* C7 *)

\* C7: for a non-empty ledger the report's grouping has exactly one entry per
\* category that occurs in the ledger, the counts sum to the number of
\* records, and the totals sum to the value the all-expenses total computes.
C7_GroupingSums ==
    (last.op = "report" /\ Len(expenses) > 0) =>
        /\ report.made
        /\ { report.totals[i].category : i \in 1..Len(report.totals) }
               = CategoriesOf(expenses)
        /\ Len(report.totals) = Cardinality(CategoriesOf(expenses))
        /\ SumCounts(report.totals) = Len(expenses)
        /\ report.grandTotal = sumAmounts(expenses, Num(0))

----------------------------------------------------------------------------
(* C8 *)

\* C8: for a non-empty ledger the top category is a category of the ledger
\* whose grouped total is the largest, the one whose first record comes
\* earliest among those sharing the largest total; the empty ledger yields no
\* top category.
C8_TopCategory ==
    /\ (last.op = "report" /\ Len(expenses) = 0) => ~report.made
    /\ (last.op = "report" /\ Len(expenses) > 0) =>
          /\ report.made
          /\ report.top.category \in CategoriesOf(expenses)
          /\ \E k \in 1..Len(report.totals) :
                /\ report.totals[k].category = report.top.category
                /\ report.totals[k].total = report.top.total
          /\ \A k \in 1..Len(report.totals) :
                /\ ~Greater(report.totals[k].total, report.top.total)
                /\ (report.totals[k].total = report.top.total
                    /\ report.totals[k].category # report.top.category)
                      => FirstIndex(expenses, report.top.category)
                           < FirstIndex(expenses, report.totals[k].category)

----------------------------------------------------------------------------
(* C9 *)

\* C9: the ledger keeps the order of insertion: a successful add places the
\* new record last, a remove deletes one record and keeps the others in
\* their order, the by-category query yields all and only the records of the
\* category in ledger order, and so the insertion instants increase along
\* the ledger.
C9_InsertionOrder ==
    [][ /\ (last'.op = "add" /\ last'.ok) =>
              /\ Len(expenses') = Len(expenses) + 1
              /\ SubSeq(expenses', 1, Len(expenses)) = expenses
              /\ expenses'[Len(expenses')].amount = last'.amount
              /\ expenses'[Len(expenses')].category = last'.category
              /\ expenses'[Len(expenses')].description = last'.description
        /\ (last'.op = "remove" /\ last'.ok) =>
              \E i \in 1..Len(expenses) :
                  /\ Len(expenses') = Len(expenses) - 1
                  /\ \A j \in 1..(i - 1) : expenses'[j] = expenses[j]
                  /\ \A j \in i..Len(expenses') : expenses'[j] = expenses[j + 1]
        /\ (last'.op = "view" /\ last'.ok) =>
              /\ expenses' = expenses
              /\ shown' = SelectSeq(expenses,
                              LAMBDA r : r.category.s = last'.category.s)
        /\ \A i, j \in 1..Len(expenses') :
              i < j => expenses'[i].date < expenses'[j].date ]_vars

\* A by-category listing of two records out of a longer ledger from which a
\* record was removed earlier.
C9_Witness ==
    /\ last.op = "view"
    /\ last.ok
    /\ Len(shown) = 2
    /\ Len(expenses) = 3
    /\ removed

----------------------------------------------------------------------------
(* C10 *)

============================================================================
